---- MODULE Spec2Model ----
\* FeedTAXII2 integration (Packs/FeedTAXII/Integrations/FeedTAXII2/FeedTAXII2.py):
\* the limit parser, the fetch-indicators cycle of main, the on-demand listing
\* and the cursor reset, over the host's persisted integration context.
EXTENDS Integers, Sequences, FiniteSets, TLC

\* ---------------------------------------------------------------- bounds
NumColl == 2        \* collections on the server
MaxTime == 3        \* creation timestamps are 1..MaxTime
MaxLimit == 2       \* largest configured limit
MaxInterval == 2    \* parse_date_range yields a timestamp in 1..MaxInterval
BatchSize == 2      \* stands for batch_size=2000 of main, scaled to the model's sizes
MaxLen == 3         \* longest limit string handed to try_parse_integer
MaxTenths == 25     \* floats are -MaxTenths/10 .. MaxTenths/10 in steps of 0.1

VARIABLES
    server,                 \* collection id -> creation timestamps of its indicators
    integrationContext,     \* host-persisted cursor mapping {collection id: cursor}
    pc,                     \* position of the running invocation of main
    command,                \* demisto.command() of the running / last invocation
    result,                 \* how the invocation ended
    output,                 \* shape of what get-indicators returned
    int_to_parse,           \* value handed to try_parse_integer
    parsed,                 \* what try_parse_integer did with it
    params,                 \* demisto.params() of the running invocation
    collections,            \* client.collections: NoCollections (None) or CollList(ids)
    collection_to_fetch,    \* client.collection_to_fetch: 0 (None) or a collection id
    latest_fetched_indicator_created, \* client attribute, NoneTS when nothing fetched
    initial_interval,       \* parse_date_range(params["initial_interval"])
    limit,                  \* local limit of the running cycle
    idx,                    \* position of the for loop in client.collections
    last_run_ctx,           \* the dict read at the start and mutated by the cycle
    indicators,             \* accumulated result list
    requests,               \* the build_iterator calls of this invocation
    submitted,              \* how many of `indicators` demisto.createIndicators has taken
    ctx_at_start,           \* persisted mapping when the invocation began
    reset_pending           \* a reset ran and no fetch cycle has completed since

vars == <<server, integrationContext, pc, command, result, output,
          int_to_parse, parsed, params, collections, collection_to_fetch,
          latest_fetched_indicator_created, initial_interval, limit, idx,
          last_run_ctx, indicators, requests, submitted, ctx_at_start, reset_pending>>

\* ---------------------------------------------------------------- values
Collections == 1..NumColl
Times == 1..MaxTime
NoneTS == 0                      \* Python None where a timestamp is expected
CollList(ids) == [none |-> FALSE, ids |-> ids]   \* client.collections is a list
NoCollections == [none |-> TRUE, ids |-> <<>>]   \* client.collections is None
EmptyCtx == [c \in {} |-> NoneTS]

Min2(a, b) == IF a <= b THEN a ELSE b
SetMin(S) == CHOOSE x \in S : \A y \in S : x <= y

RECURSIVE SortedSeq(_)
SortedSeq(S) == IF S = {} THEN <<>>
                ELSE <<SetMin(S)>> \o SortedSeq(S \ {SetMin(S)})

RECURSIVE SeqOfIds(_)
SeqOfIds(n) == IF n = 0 THEN <<>> ELSE Append(SeqOfIds(n - 1), n)

\* ------------------------------------------------- Python values and int()
PyVal(t, n, s) == [t |-> t, n |-> n, s |-> s]
PyNone == PyVal("none", 0, <<>>)
PyInt(n) == PyVal("int", n, <<>>)
PyStr(s) == PyVal("str", 0, s)
PyFloat(tenths) == PyVal("float", tenths, <<>>)   \* the float tenths / 10
PyInf == PyVal("inf", 0, <<>>)                    \* float("inf")

Digits == {"0", "1", "2"}
Chars == Digits \cup {"-", "+", " ", ".", "a"}
DigitVal(c) == CASE c = "0" -> 0 [] c = "1" -> 1 [] c = "2" -> 2

RECURSIVE SeqsUpTo(_)
SeqsUpTo(n) == IF n = 0 THEN {<<>>}
               ELSE SeqsUpTo(n - 1) \cup
                    {Append(s, c) : s \in {x \in SeqsUpTo(n - 1) : Len(x) = n - 1}, c \in Chars}

PyValues == {PyNone, PyInf}
            \cup {PyInt(n) : n \in -1..MaxLimit}
            \cup {PyFloat(f) : f \in -MaxTenths..MaxTenths}
            \cup {PyStr(s) : s \in SeqsUpTo(MaxLen)}

\* bool(v)
Truthy(v) == CASE v.t = "none" -> FALSE
               [] v.t = "int" -> v.n # 0
               [] v.t = "float" -> v.n # 0
               [] v.t = "inf" -> TRUE
               [] v.t = "str" -> v.s # <<>>

\* a or b
PyOr(a, b) == IF Truthy(a) THEN a ELSE b

RECURSIVE LStrip(_)
LStrip(s) == IF s # <<>> /\ Head(s) = " " THEN LStrip(Tail(s)) ELSE s
RECURSIVE RStrip(_)
RStrip(s) == IF s # <<>> /\ s[Len(s)] = " " THEN RStrip(SubSeq(s, 1, Len(s) - 1)) ELSE s

RECURSIVE DigitsValue(_, _)
DigitsValue(s, acc) == IF s = <<>> THEN acc
                       ELSE DigitsValue(Tail(s), acc * 10 + DigitVal(Head(s)))

\* int(str): surrounding whitespace dropped, one optional sign, then digits only
IntOfStr(s) ==
    LET b == RStrip(LStrip(s))
        signed == b # <<>> /\ Head(b) \in {"-", "+"}
        body == IF signed THEN Tail(b) ELSE b
        good == body # <<>> /\ \A i \in 1..Len(body) : body[i] \in Digits
    IN  IF ~good THEN [exc |-> "ValueError", n |-> 0]
        ELSE [exc |-> "none",
              n |-> IF signed /\ Head(b) = "-" THEN 0 - DigitsValue(body, 0)
                    ELSE DigitsValue(body, 0)]

\* int(v): the value, or the exception Python raises
PyIntOf(v) ==
    CASE v.t = "none" -> [exc |-> "TypeError", n |-> 0]
      [] v.t = "int" -> [exc |-> "none", n |-> v.n]
      [] v.t = "float" -> [exc |-> "none",
                           n |-> IF v.n >= 0 THEN v.n \div 10 ELSE 0 - ((0 - v.n) \div 10)]
      [] v.t = "inf" -> [exc |-> "OverflowError", n |-> 0]
      [] v.t = "str" -> IntOfStr(v.s)

\* faulty variant: the except clause names ValueError only
try_parse_integer_ValueErrorOnly(int_to_parse_) ==
    LET res == PyIntOf(int_to_parse_)
    IN  IF res.exc = "ValueError" THEN [exc |-> "DemistoException", n |-> 0] ELSE res

try_parse_integer(int_to_parse_) ==
    LET res == PyIntOf(int_to_parse_)
    IN  IF res.exc \in {"TypeError", "ValueError"}
        THEN [exc |-> "DemistoException", n |-> 0]
        ELSE res

\* main, line 183: params.get("limit") or -1
LimitParam(v) == PyOr(v, PyInt(-1))

\* how main's except clause reports an exception of the limit parser
ParseFailure(exc) == IF exc = "DemistoException" THEN "limit_error" ELSE "exception"

\* ------------------------------------------------------------ the client
\* Taxii2FeedClient lives in TAXII2ApiModule; the adapter sees it through
\* collections, collection_to_fetch, build_iterator and
\* latest_fetched_indicator_created.
AllIds == SeqOfIds(NumColl)

\* client.collections after initialise(): the server's collections when one of
\* them is pinned (cp # 0), else None, no collection or the server's collections
Resolved(cp) ==
    IF cp = 0 THEN {NoCollections, CollList(<<>>), CollList(AllIds)}
    ELSE {CollList(AllIds)}

Available(c, added_after) == {t \in server[c] : t > added_after}

\* build_iterator(limit, added_after) on collection c: the indicators added
\* after the cursor, oldest first, at most `limit` of them when limit >= 0
build_iterator(c, limit_, added_after) ==
    LET all == SortedSeq(Available(c, added_after))
    IN  IF limit_ < 0 THEN all ELSE SubSeq(all, 1, Min2(limit_, Len(all)))

\* latest_fetched_indicator_created after a call that returned `fetched`
LatestAfter(latest, fetched) ==
    IF fetched = <<>> THEN latest ELSE fetched[Len(fetched)]

Tag(c, fetched) == [i \in 1..Len(fetched) |-> [collection |-> c, created |-> fetched[i]]]

\* parse_date_range(initial_interval, date_format=TAXII_TIME_FORMAT)[0]
InitialIntervals == 1..MaxInterval

\* ------------------------------------------------- fetch_indicators_command
Put(ctx, id, v) == [x \in DOMAIN ctx \cup {id} |-> IF x = id THEN v ELSE ctx[x]]

\* faulty variant: the later of the cursor and the initial interval
AddedAfter_Later(ctx, id, initial) ==
    IF id \in DOMAIN ctx /\ ctx[id] > initial THEN ctx[id] ELSE initial

\* lines 55 and 64-66
AddedAfter(ctx, id, initial) == IF id \in DOMAIN ctx THEN ctx[id] ELSE initial

\* faulty variant: the remaining limit is not reduced
LimitAfter_NoDecrement(limit_, n) == limit_

\* lines 58-59
LimitAfter(limit_, n) == IF limit_ >= 0 THEN limit_ - n ELSE limit_

\* faulty variant: the limit >= 0 test is missing
Breaks_Unguarded(limit_, n) == limit_ - n <= 0

\* lines 58-61
Breaks(limit_, n) == limit_ >= 0 /\ LimitAfter(limit_, n) <= 0

\* line 62
CursorAll(latest, added_after) == latest

\* lines 69-71
CursorPinned(latest, added_after) == IF latest # NoneTS THEN latest ELSE added_after

\* for iter_ in batch(indicators, batch_size=2000): nothing to submit when empty
AfterFetch(inds) == IF Len(inds) = 0 THEN "persist" ELSE "submit"

Request(c, limit_, added_after, fetched) ==
    [collection |-> c, limit |-> limit_, added_after |-> added_after,
     fetched |-> Len(fetched),
     newest |-> IF fetched = <<>> THEN NoneTS ELSE fetched[Len(fetched)]]

\* ------------------------------------------------------------------ Init
FetchLimitParams == {PyNone, PyStr(<<"0">>), PyStr(<<"a">>)}
                    \cup {PyInt(n) : n \in 0..MaxLimit}

\* params: collection_to_fetch (0 when unset), limit as the host hands it over,
\* initial_interval already through parse_date_range
ParamSets == [collection_to_fetch : {0} \cup Collections,
              limit : FetchLimitParams,
              initial_interval : InitialIntervals]
NoParams == [collection_to_fetch |-> 0, limit |-> PyNone, initial_interval |-> NoneTS]

Locals ==
    /\ output = "none"
    /\ int_to_parse = PyNone
    /\ parsed = [exc |-> "none", n |-> 0]
    /\ collections = NoCollections
    /\ collection_to_fetch = 0
    /\ latest_fetched_indicator_created = NoneTS
    /\ initial_interval = NoneTS
    /\ limit = 0
    /\ idx = 0
    /\ last_run_ctx = EmptyCtx
    /\ indicators = <<>>
    /\ requests = <<>>
    /\ submitted = 0
    /\ ctx_at_start = EmptyCtx

\* a collection holds nothing, everything, or everything but the newest
ServerShapes == {{}, Times, Times \ {MaxTime}}

Init ==
    /\ server \in [Collections -> ServerShapes]
    /\ integrationContext = EmptyCtx
    /\ pc = "idle"
    /\ command = "none"
    /\ result = "none"
    /\ reset_pending = FALSE
    /\ params = NoParams
    /\ Locals

\* ------------------------------------------------------------ main: fetch

\* main lines 153-187 up to the first client call of fetch_indicators_command,
\* with client.collections resolved to colls
StartFetchWith(prm, colls) ==
    LET p == try_parse_integer(LimitParam(prm.limit))
        cp == prm.collection_to_fetch
    IN  /\ pc = "idle"
        /\ params' = prm
        /\ command' = "fetch-indicators"
        /\ collections' = colls
        /\ collection_to_fetch' = cp
        /\ int_to_parse' = LimitParam(prm.limit)
        /\ parsed' = p
        /\ ctx_at_start' = integrationContext
        /\ IF p.exc # "none"
           THEN /\ pc' = "done"
                /\ result' = ParseFailure(p.exc)
                /\ UNCHANGED <<initial_interval, limit, idx, last_run_ctx>>
           ELSE /\ initial_interval' = prm.initial_interval
                /\ limit' = p.n
                /\ last_run_ctx' = integrationContext
                /\ IF cp = 0 /\ colls = NoCollections
                   THEN pc' = "done" /\ result' = "no_coll_error" /\ idx' = 0
                   ELSE /\ result' = "running"
                        /\ idx' = IF cp = 0 THEN 1 ELSE 0
                        /\ pc' = IF cp # 0 THEN "single"
                                 ELSE IF colls.ids = <<>> THEN "persist" ELSE "loop"
        /\ UNCHANGED <<server, integrationContext, output,
                       latest_fetched_indicator_created, indicators, requests,
                       submitted, reset_pending>>

StartFetch ==
    \E prm \in ParamSets :
        \E colls \in Resolved(prm.collection_to_fetch) : StartFetchWith(prm, colls)

\* one iteration of the for loop, lines 53-62, without the persisted store
FetchCollectionBody ==
    /\ pc = "loop"
    /\ LET c == collections.ids[idx]
           added_after == AddedAfter(last_run_ctx, c, initial_interval)
           fetched == build_iterator(c, limit, added_after)
           latest == LatestAfter(latest_fetched_indicator_created, fetched)
           brk == Breaks(limit, Len(fetched))
           inds == indicators \o Tag(c, fetched)
       IN  /\ collection_to_fetch' = c
           /\ requests' = Append(requests, Request(c, limit, added_after, fetched))
           /\ indicators' = inds
           /\ limit' = LimitAfter(limit, Len(fetched))
           /\ latest_fetched_indicator_created' = latest
           /\ last_run_ctx' = IF brk THEN last_run_ctx
                              ELSE Put(last_run_ctx, c, CursorAll(latest, added_after))
           /\ IF brk \/ idx = Len(collections.ids)
              THEN pc' = AfterFetch(inds) /\ idx' = idx
              ELSE pc' = "loop" /\ idx' = idx + 1
    /\ UNCHANGED <<server, command, result, output, int_to_parse, parsed,
                   params, collections, initial_interval, submitted,
                   ctx_at_start, reset_pending>>

\* faulty variant: every collection's cursor is persisted as soon as it is computed
FetchCollection_WriteThrough ==
    FetchCollectionBody /\ integrationContext' = last_run_ctx'

FetchCollection == FetchCollectionBody /\ UNCHANGED integrationContext

\* the pinned branch, lines 64-71
FetchPinned ==
    /\ pc = "single"
    /\ LET c == collection_to_fetch
           added_after == AddedAfter(last_run_ctx, c, initial_interval)
           fetched == build_iterator(c, limit, added_after)
           latest == LatestAfter(latest_fetched_indicator_created, fetched)
       IN  /\ requests' = Append(requests, Request(c, limit, added_after, fetched))
           /\ indicators' = Tag(c, fetched)
           /\ latest_fetched_indicator_created' = latest
           /\ last_run_ctx' = Put(last_run_ctx, c, CursorPinned(latest, added_after))
           /\ pc' = AfterFetch(fetched)
    /\ UNCHANGED <<server, integrationContext, command, result, output,
                   int_to_parse, parsed, params, collections,
                   collection_to_fetch, initial_interval, limit, idx, submitted,
                   ctx_at_start, reset_pending>>

\* build_iterator raises: main's except clause reports it, lines 195-203
FetchError ==
    /\ pc \in {"loop", "single"}
    /\ pc' = "done"
    /\ result' = "client_error"
    /\ UNCHANGED <<server, integrationContext, command, output, int_to_parse,
                   parsed, params, collections, collection_to_fetch,
                   latest_fetched_indicator_created, initial_interval, limit, idx,
                   last_run_ctx, indicators, requests, submitted, ctx_at_start,
                   reset_pending>>

\* one demisto.createIndicators(iter_) of lines 188-189
CreateIndicators ==
    /\ pc = "submit"
    /\ LET k == Min2(BatchSize, Len(indicators) - submitted)
       IN  /\ submitted' = submitted + k
           /\ pc' = IF submitted + k = Len(indicators) THEN "persist" ELSE "submit"
    /\ UNCHANGED <<server, integrationContext, command, result, output, int_to_parse,
                   parsed, params, collections, collection_to_fetch,
                   latest_fetched_indicator_created, initial_interval, limit, idx,
                   last_run_ctx, indicators, requests, ctx_at_start, reset_pending>>

\* demisto.createIndicators raises
CreateIndicatorsError ==
    /\ pc = "submit"
    /\ pc' = "done"
    /\ result' = "submit_error"
    /\ UNCHANGED <<server, integrationContext, command, output, int_to_parse,
                   parsed, params, collections, collection_to_fetch,
                   latest_fetched_indicator_created, initial_interval, limit, idx,
                   last_run_ctx, indicators, requests, submitted, ctx_at_start,
                   reset_pending>>

\* line 191
SetIntegrationContext ==
    /\ pc = "persist"
    /\ integrationContext' = last_run_ctx
    /\ pc' = "done"
    /\ result' = "ok"
    /\ UNCHANGED <<server, command, output, int_to_parse, parsed,
                   params, collections, collection_to_fetch,
                   latest_fetched_indicator_created, initial_interval, limit, idx,
                   last_run_ctx, indicators, requests, submitted, ctx_at_start,
                   reset_pending>>

\* -------------------------------------------------- get_indicators_command
\* the for loop of lines 94-101, from position i with `acc` accumulated
RECURSIVE GetAllLoop(_, _, _, _, _)
GetAllLoop(ids, i, limit_, added_after, acc) ==
    IF i > Len(ids) THEN acc
    ELSE LET fetched == build_iterator(ids[i], limit_, added_after)
             acc2 == acc \o Tag(ids[i], fetched)
         IN  IF Breaks(limit_, Len(fetched)) THEN acc2
             ELSE GetAllLoop(ids, i + 1, LimitAfter(limit_, Len(fetched)), added_after, acc2)

GetLimitArgs == {PyStr(<<"a">>), PyStr(<<"-", "1">>), PyInt(MaxLimit), PyFloat(15)}

\* lines 106-120
OutputShape(raw, inds) ==
    IF raw = "true" THEN "raw" ELSE IF inds # <<>> THEN "CommandResults" ELSE "markdown"

\* taxii2-get-indicators: main lines 166-175, 193 and get_indicators_command
GetIndicators ==
    /\ pc = "idle"
    /\ \E cp \in {0} \cup Collections, la \in GetLimitArgs,
          aa \in {NoneTS} \cup InitialIntervals, raw \in {"true", "false"} :
       \E colls \in Resolved(cp) :
         LET p == try_parse_integer(la)
             inds == IF cp = 0
                     THEN GetAllLoop(colls.ids, 1, p.n, aa, <<>>)
                     ELSE Tag(cp, build_iterator(cp, p.n, aa))
         IN  /\ command' = "taxii2-get-indicators"
             /\ params' = [NoParams EXCEPT !.collection_to_fetch = cp]
             /\ collections' = colls
             /\ collection_to_fetch' = cp
             /\ int_to_parse' = la
             /\ parsed' = p
             /\ pc' = "done"
             /\ ctx_at_start' = integrationContext
             /\ IF p.exc # "none"
                THEN result' = ParseFailure(p.exc) /\ indicators' = <<>> /\ output' = "none"
                ELSE IF cp = 0 /\ colls = NoCollections
                THEN result' = "no_coll_error" /\ indicators' = <<>> /\ output' = "none"
                ELSE result' = "ok" /\ indicators' = inds /\ output' = OutputShape(raw, inds)
    /\ UNCHANGED <<server, integrationContext,
                   latest_fetched_indicator_created, initial_interval, limit, idx,
                   last_run_ctx, requests, submitted, reset_pending>>

\* ------------------------------------------------------ reset_fetch_command
\* faulty variant: the reset leaves the mapping as it is
ResetContext_Keeps(ctx) == ctx

\* line 145: demisto.setIntegrationContext({})
ResetContext(ctx) == EmptyCtx

\* taxii2-reset-fetch-indicators: main lines 166-175, 193 and reset_fetch_command
ResetFetch ==
    /\ pc = "idle"
    /\ command' = "taxii2-reset-fetch-indicators"
    /\ ctx_at_start' = integrationContext
    /\ integrationContext' = ResetContext(integrationContext)
    /\ reset_pending' = TRUE
    /\ pc' = "done"
    /\ result' = "ok"
    /\ UNCHANGED <<server, output, int_to_parse, parsed, params,
                   collections, collection_to_fetch, latest_fetched_indicator_created,
                   initial_interval, limit, idx, last_run_ctx, indicators, requests,
                   submitted>>

\* ------------------------------------------------------------- all commands
Commands == {"fetch-indicators", "taxii2-get-indicators", "taxii2-reset-fetch-indicators"}

\* Taxii2FeedClient(...) or client.initialise() raises (lines 167-170), or the
\* client raises inside a handler that changes nothing: lines 195-203
ClientError ==
    /\ pc = "idle"
    /\ \E cmd \in Commands : command' = cmd
    /\ pc' = "done"
    /\ result' = "client_error"
    /\ ctx_at_start' = integrationContext
    /\ UNCHANGED <<server, integrationContext, output, int_to_parse, parsed,
                   params, collections, collection_to_fetch,
                   latest_fetched_indicator_created, initial_interval, limit, idx,
                   last_run_ctx, indicators, requests, submitted, reset_pending>>

\* main returns; the next invocation starts from fresh locals and a new client
Return ==
    /\ pc = "done"
    /\ pc' = "idle"
    /\ command' = "none"
    /\ result' = "none"
    /\ reset_pending' = IF command = "fetch-indicators" THEN FALSE ELSE reset_pending
    /\ output' = "none"
    /\ int_to_parse' = PyNone
    /\ parsed' = [exc |-> "none", n |-> 0]
    /\ collections' = NoCollections
    /\ collection_to_fetch' = 0
    /\ latest_fetched_indicator_created' = NoneTS
    /\ initial_interval' = NoneTS
    /\ limit' = 0
    /\ idx' = 0
    /\ last_run_ctx' = EmptyCtx
    /\ indicators' = <<>>
    /\ requests' = <<>>
    /\ submitted' = 0
    /\ ctx_at_start' = EmptyCtx
    /\ params' = NoParams
    /\ UNCHANGED <<server, integrationContext>>

Next ==
    \/ StartFetch
    \/ FetchCollection
    \/ FetchPinned
    \/ FetchError
    \/ CreateIndicators
    \/ CreateIndicatorsError
    \/ SetIntegrationContext
    \/ GetIndicators
    \/ ResetFetch
    \/ ClientError
    \/ Return

Spec == Init /\ [][Next]_vars

\* ------------------------------------------- the limit parser on its own
ParseInit == Init /\ server = [c \in Collections |-> {}]

\* get_indicators_command line 84: limit = try_parse_integer(limit)
ParseLimitArg ==
    /\ command = "none"
    /\ \E v \in PyValues :
         /\ int_to_parse' = v
         /\ parsed' = try_parse_integer(v)
    /\ command' = "taxii2-get-indicators"
    /\ params' = NoParams
    /\ UNCHANGED <<server, integrationContext, pc, result, output, collections,
                   collection_to_fetch, latest_fetched_indicator_created,
                   initial_interval, limit, idx, last_run_ctx, indicators, requests,
                   submitted, ctx_at_start, reset_pending>>

\* main line 183: limit = try_parse_integer(params.get("limit") or -1)
ParseLimitParam ==
    /\ command = "none"
    /\ \E v \in PyValues :
         /\ params' = [NoParams EXCEPT !.limit = v]
         /\ int_to_parse' = LimitParam(v)
         /\ parsed' = try_parse_integer(LimitParam(v))
    /\ command' = "fetch-indicators"
    /\ UNCHANGED <<server, integrationContext, pc, result, output, collections,
                   collection_to_fetch, latest_fetched_indicator_created,
                   initial_interval, limit, idx, last_run_ctx, indicators, requests,
                   submitted, ctx_at_start, reset_pending>>

ParseNext == ParseLimitArg \/ ParseLimitParam

ParseSpec == ParseInit /\ [][ParseNext]_vars

\* --------------------------- repeated fetch cycles under one configuration
LiveLimit == 1       \* the configured positive limit of the repeated cycles
LiveInterval == SetMin(InitialIntervals)
LiveParams == [collection_to_fetch |-> 0, limit |-> PyInt(LiveLimit),
               initial_interval |-> LiveInterval]

LiveInit ==
    /\ server \in [Collections -> SUBSET Times]
    /\ integrationContext = EmptyCtx
    /\ pc = "idle"
    /\ command = "none"
    /\ result = "none"
    /\ reset_pending = FALSE
    /\ params = NoParams
    /\ Locals

\* the host runs fetch-indicators on its schedule; the client resolves every
\* collection and nothing fails
LiveStartFetch == StartFetchWith(LiveParams, CollList(AllIds))

LiveNext ==
    \/ LiveStartFetch
    \/ FetchCollection
    \/ CreateIndicators
    \/ SetIntegrationContext
    \/ Return

LiveSpec == LiveInit /\ [][LiveNext]_vars /\ WF_vars(LiveNext)

\* ================================================================= claims
Fetching == command = "fetch-indicators"
FetchAllMode == params.collection_to_fetch = 0
FetchSucceeded == Fetching /\ pc = "done" /\ result = "ok"
\* the cycle's client calls are over
FetchPhaseOver ==
    /\ Fetching
    /\ \/ pc \in {"submit", "persist"}
       \/ pc = "done" /\ result \in {"ok", "submit_error"}
\* the cursor a collection had when the invocation began
HadCursor(c) == c \in DOMAIN ctx_at_start
Indicator(c, t) == [collection |-> c, created |-> t]
Later(a, b) == IF a >= b THEN a ELSE b
Elems(q) == {q[i] : i \in 1..Len(q)}

\* C1: in a fetch cycle whose limit L is >= 0, the indicators returned across
\* all collections never number more than L.
C1_TotalWithinLimit ==
    (Fetching /\ parsed.exc = "none" /\ parsed.n >= 0) => Len(indicators) <= parsed.n

\* C1 witness: a cycle took indicators from two collections and filled its limit
C1_Witness ==
    /\ FetchSucceeded /\ FetchAllMode
    /\ parsed.n >= 2
    /\ Len(requests) >= 2
    /\ requests[1].fetched >= 1 /\ requests[2].fetched >= 1
    /\ Len(indicators) = parsed.n

\* the cursor the returned mapping gives a collection: its entry, or the
\* initial interval the next cycle falls back to when it has none
EffectiveCursor(c) ==
    IF c \in DOMAIN integrationContext THEN integrationContext[c] ELSE initial_interval

\* C2: after a successful fetch cycle every fetched collection's cursor is the
\* newest creation time among the indicators its fetch yielded, or, when it
\* yielded none, its prior cursor (the initial interval when it had none).
C2_CursorAfterFetch ==
    FetchSucceeded =>
        \A i \in 1..Len(requests) :
            LET r == requests[i]
                c == r.collection
            IN  EffectiveCursor(c) =
                    IF r.fetched > 0 THEN r.newest
                    ELSE IF HadCursor(c) THEN ctx_at_start[c] ELSE initial_interval

\* C3: the reset leaves the persisted mapping empty, it stays empty until the
\* next fetch cycle, and that cycle asks for every collection with added_after
\* equal to the initial interval.
C3_ResetRestarts ==
    /\ (command = "taxii2-reset-fetch-indicators" /\ pc = "done" /\ result = "ok")
           => integrationContext = EmptyCtx
    /\ (reset_pending /\ ~FetchSucceeded) => integrationContext = EmptyCtx
    /\ (reset_pending /\ Fetching) =>
           \A i \in 1..Len(requests) : requests[i].added_after = initial_interval

\* C3 witness: the first fetch cycle after a reset has asked for every collection
C3_Witness ==
    /\ reset_pending /\ FetchSucceeded /\ FetchAllMode
    /\ Len(requests) = NumColl
    /\ \E i \in 1..Len(requests) : requests[i].fetched > 0

\* C4: every collection in the persisted mapping maps to a timestamp, never
\* to None.
C4_CursorsAreTimestamps ==
    \A c \in DOMAIN integrationContext : integrationContext[c] \in Times

\* C5: with a limit < 0 the loop asks for every collection the client knows,
\* in order, and the result holds exactly the indicators available after each
\* collection's cursor (the pinned branch asks for the pinned collection and
\* returns all that is available there).
C5_UnboundedFetchesAll ==
    (FetchPhaseOver /\ parsed.n < 0) =>
        LET scope == IF FetchAllMode THEN collections.ids
                     ELSE <<params.collection_to_fetch>>
            want == {Indicator(c, t) : c \in Elems(scope), t \in Times} \cap
                    {x \in [collection : Collections, created : Times] :
                        x.created \in Available(x.collection,
                            AddedAfter(ctx_at_start, x.collection, initial_interval))}
        IN  /\ Len(requests) = Len(scope)
            /\ \A i \in 1..Len(scope) : requests[i].collection = scope[i]
            /\ Elems(indicators) = want
            /\ Len(indicators) = Cardinality(want)

\* C5 witness: an unbounded fetch-all cycle that took indicators from every collection
C5_Witness ==
    /\ FetchSucceeded /\ FetchAllMode /\ parsed.n < 0
    /\ Len(requests) = NumColl
    /\ \A i \in 1..Len(requests) : requests[i].fetched >= 2

\* C6 as claimed: added_after is the later of the persisted cursor and the
\* initial interval, and the initial interval when there is no cursor.
C6_LaterOfCursorAndInterval ==
    Fetching =>
        \A i \in 1..Len(requests) :
            LET r == requests[i]
                c == r.collection
            IN  IF HadCursor(c)
                THEN ctx_at_start[c] \in Times =>
                         r.added_after = Later(ctx_at_start[c], initial_interval)
                ELSE r.added_after = initial_interval

\* C6 as amended: added_after is the persisted cursor whenever the collection
\* has one, earlier than the initial interval or not, and the initial interval
\* only when it has none.
C6_CursorElseInterval ==
    Fetching =>
        \A i \in 1..Len(requests) :
            LET r == requests[i]
                c == r.collection
            IN  r.added_after = IF HadCursor(c) THEN ctx_at_start[c] ELSE initial_interval

\* C6 witness: a collection was asked for with a cursor older than the initial interval
C6_Witness ==
    /\ Fetching
    /\ \E i \in 1..Len(requests) :
           LET c == requests[i].collection
           IN  /\ HadCursor(c)
               /\ ctx_at_start[c] \in Times
               /\ ctx_at_start[c] < initial_interval
               /\ requests[i].added_after = ctx_at_start[c]

\* C7: with no pinned collection and no collection resolved (None or an empty
\* list) the fetch cycle and the on-demand listing end in the configuration
\* error, not in a result.
C7_NoCollectionsIsAnError ==
    ( /\ command \in {"fetch-indicators", "taxii2-get-indicators"}
      /\ pc = "done"
      /\ result # "client_error"
      /\ parsed.exc = "none"
      /\ FetchAllMode
      /\ collections \in {NoCollections, CollList(<<>>)} )
    => result = "no_coll_error"

\* text that denotes an integer: blanks, an optional sign, digits, blanks
IsIntegerText(s) ==
    \E a \in 0..Len(s) : \E b \in a..Len(s) :
        /\ \A k \in 1..a : s[k] = " "
        /\ \A k \in (b + 1)..Len(s) : s[k] = " "
        /\ LET core == SubSeq(s, a + 1, b)
               num == IF core # <<>> /\ core[1] \in {"+", "-"} THEN Tail(core) ELSE core
           IN  /\ num # <<>>
               /\ \A k \in 1..Len(num) : num[k] \in Digits
IsIntegerInput(v) ==
    \/ v.t = "int"
    \/ v.t = "float" /\ v.n % 10 = 0
    \/ v.t = "str" /\ IsIntegerText(v.s)
\* None, or text that denotes no integer
Unparsable(v) == v.t = "none" \/ (v.t = "str" /\ ~IsIntegerText(v.s))
\* the limit as the host handed it over
RawLimit == IF Fetching THEN params.limit ELSE int_to_parse

C9_PersistOnlyAtTheEnd ==
    Fetching =>
        IF pc = "done" /\ result = "ok"
        THEN integrationContext = last_run_ctx /\ submitted = Len(indicators)
        ELSE integrationContext = ctx_at_start

\* C9 witness: a submission failed after a batch went through and after the
\* cycle had moved a cursor
C9_Witness ==
    /\ Fetching /\ pc = "done" /\ result = "submit_error"
    /\ submitted > 0
    /\ last_run_ctx # ctx_at_start

\* C10: under one configuration with a positive limit and no errors, repeated
\* fetch-all cycles eventually submit every indicator newer than the initial
\* interval.
C10_EverythingIsSubmitted ==
    \A c \in Collections : \A t \in Times :
        (t \in server[c] /\ t > LiveInterval) =>
            <>(\E i \in 1..submitted : indicators[i] = Indicator(c, t))
====
